---- MODULE Spec2Model ----
(***************************************************************************)
(* Water Reminder (jalbarrang/water-app): the reminder scheduler of the    *)
(* Electron main process (src/src/app.ts), its IPC handlers, and the       *)
(* settings form of the renderer (src/src/renderer/app.tsx).               *)
(*                                                                         *)
(* Time is wall-clock milliseconds, as Date.now() returns it.  Every       *)
(* handler is one synchronous callback of the main process' event loop,    *)
(* so one action is one whole handler, run at one reading of the clock.    *)
(* The clock is read on a grid of instants around the minute boundaries    *)
(* and never goes backwards.                                               *)
(***************************************************************************)
EXTENDS Integers, Sequences, FiniteSets

VARIABLES
    now,        \* Date.now(): the wall clock, in ms
    store,      \* electron-store record: intervalMinutes, lastSent, openAtLogin
    scheduler,  \* the module-level `scheduler`: "null", "running" or "stopped"
    loginItem,  \* the OS login item, as app.setLoginItemSettings left it
    win,        \* the settings window: "closed", "loading" or "open"
    form,       \* React state of the settings form: intervalMinutes, openAtLogin
    lastOp,     \* observer: the handler that ran last
    shown,      \* observer: the notifications that handler displayed, in order
    pre,        \* observer: the store as that handler found it
    started,    \* observer: initScheduler's clock reading (at, -1 before it),
                \* whether the lastSent it found was already due (overdue), and
                \* whether before-quit has run since (quit)
    lastSave,   \* observer: the latest save-settings request: its clock reading
                \* (at, -1 if none) and the intervalMinutes it left stored
    request,    \* observer: the payload of the save-settings request, when that
                \* is the handler that ran last; the empty payload otherwise
    picked,     \* observer: the index of the <option> last chosen in the
                \* <select> since the form was mounted or loaded; 0 if none
    owed        \* observer: the latest instant still to come before which some
                \* completed save-settings, at t with interval M, rules out a
                \* reminder (the greatest t + M*60000); -1 when none is to come

vars == <<now, store, scheduler, loginItem, win, form, picked,
          lastOp, shown, pre, started, lastSave, request, picked, owed>>

----------------------------------------------------------------------------
(* Bounds *)

\* The clock is observed up to this many minutes after the epoch.
MaxMinutes == 3

\* Date.now() readings: the epoch, and each minute boundary with the
\* millisecond before it.
ClockTimes ==
    {0} \cup { k * 60 * 1000 + e : k \in 1..MaxMinutes, e \in {-1, 0} }

\* A field of a Partial<Settings>: {} when undefined, {v} when it holds v.
Undefined == {}

Value(field) == CHOOSE v \in field : TRUE

\* intervalMinutes values an IPC caller may put in a save-settings request.
IpcIntervals == {-1, 0, 1, 2}

----------------------------------------------------------------------------
(* The settings store *)

\* The schema's defaults.
schema == [intervalMinutes |-> 15, lastSent |-> 0, openAtLogin |-> FALSE]

\* intervalMinutes * 60 * 1000
intervalMs(intervalMinutes) == intervalMinutes * 60 * 1000

\* A handler's outcome: the store it leaves and the notifications it showed.
Outcome(st, notes) == [store |-> st, shown |-> notes]

----------------------------------------------------------------------------
(* Main process: scheduler *)

\* Faulty variant: the notification is shown and the timestamp is not updated.
showWithoutStamp(st, t) == Outcome(st, <<"water">>)

\* notification.show(); store.set('lastSent', Date.now())
showWaterNotification(st, t) ==
    Outcome([st EXCEPT !.lastSent = t], <<"water">>)

\* Faulty variant: > where the code has >=.
checkAndNotifyStrict(st, t) ==
    IF st.lastSent = 0
    THEN Outcome(st, <<>>)
    ELSE IF t - st.lastSent > intervalMs(st.intervalMinutes)
         THEN showWaterNotification(st, t)
         ELSE Outcome(st, <<>>)

\* Faulty variant: the lastSent === 0 guard left out.
checkAndNotifyNoSentinel(st, t) ==
    IF t - st.lastSent >= intervalMs(st.intervalMinutes)
    THEN showWaterNotification(st, t)
    ELSE Outcome(st, <<>>)

\* Faulty variant: a tick that is not due restarts the window.
checkAndNotifyRestamp(st, t) ==
    IF st.lastSent = 0
    THEN Outcome(st, <<>>)
    ELSE IF t - st.lastSent >= intervalMs(st.intervalMinutes)
         THEN showWaterNotification(st, t)
         ELSE Outcome([st EXCEPT !.lastSent = t], <<>>)

\* Faulty variant: a due tick moves lastSent on by one interval only.
checkAndNotifyCatchUp(st, t) ==
    IF st.lastSent = 0
    THEN Outcome(st, <<>>)
    ELSE IF t - st.lastSent >= intervalMs(st.intervalMinutes)
         THEN Outcome([st EXCEPT !.lastSent =
                           st.lastSent + intervalMs(st.intervalMinutes)],
                      <<"water">>)
         ELSE Outcome(st, <<>>)

checkAndNotify(st, t) ==
    IF st.lastSent = 0
    THEN Outcome(st, <<>>)
    ELSE LET timeSinceLastSent == t - st.lastSent
         IN  IF timeSinceLastSent >= intervalMs(st.intervalMinutes)
             THEN showWaterNotification(st, t)
             ELSE Outcome(st, <<>>)

\* Faulty variant: the scheduler starts on the lastSent it finds.
initSchedulerNoStamp(st, t) == st

\* Faulty variant: the scheduler starts from the sentinel.
initSchedulerStampZero(st, t) == [st EXCEPT !.lastSent = 0]

\* scheduler = new Cron(...); store.set('lastSent', Date.now())
initScheduler(st, t) == [st EXCEPT !.lastSent = t]

\* scheduler.stop(): a method call, a TypeError on null.
stop(sch) ==
    IF sch = "null"
    THEN [scheduler |-> sch, threw |-> TRUE]
    ELSE [scheduler |-> "stopped", threw |-> FALSE]

\* Faulty variant: the `if (scheduler)` guard left out.
beforeQuitNoGuard(sch) == stop(sch)

\* Faulty variant: the scheduler is left running.
beforeQuitNoStop(sch) == [scheduler |-> sch, threw |-> FALSE]

\* app.on('before-quit'): if (scheduler) { scheduler.stop() }
beforeQuit(sch) ==
    IF sch # "null" THEN stop(sch) ELSE [scheduler |-> sch, threw |-> FALSE]

----------------------------------------------------------------------------
(* Main process: IPC handlers *)

\* Faulty variant: lastSent is reset only when the request carries an interval.
saveSettingsStoreStampOnInterval(st, newSettings, t) ==
    LET s2 == IF newSettings.openAtLogin # Undefined
              THEN [st EXCEPT !.openAtLogin = Value(newSettings.openAtLogin)]
              ELSE st
    IN  IF newSettings.intervalMinutes # Undefined
        THEN [s2 EXCEPT !.intervalMinutes = Value(newSettings.intervalMinutes),
                        !.lastSent = t]
        ELSE s2

\* Faulty variant: the window is restarted by writing the sentinel back.
saveSettingsStoreResetToZero(st, newSettings, t) ==
    LET s1 == IF newSettings.intervalMinutes # Undefined
              THEN [st EXCEPT !.intervalMinutes = Value(newSettings.intervalMinutes)]
              ELSE st
        s2 == IF newSettings.openAtLogin # Undefined
              THEN [s1 EXCEPT !.openAtLogin = Value(newSettings.openAtLogin)]
              ELSE s1
    IN  [s2 EXCEPT !.lastSent = 0]

\* Faulty variant: the new fields are written and lastSent is left as it was.
saveSettingsStoreNoStamp(st, newSettings, t) ==
    LET s1 == IF newSettings.intervalMinutes # Undefined
              THEN [st EXCEPT !.intervalMinutes = Value(newSettings.intervalMinutes)]
              ELSE st
    IN  IF newSettings.openAtLogin # Undefined
        THEN [s1 EXCEPT !.openAtLogin = Value(newSettings.openAtLogin)]
        ELSE s1

\* Faulty variant: a field the request leaves out goes back to its default.
saveSettingsStoreDefaults(st, newSettings, t) ==
    [intervalMinutes |-> IF newSettings.intervalMinutes # Undefined
                         THEN Value(newSettings.intervalMinutes)
                         ELSE schema.intervalMinutes,
     openAtLogin |-> IF newSettings.openAtLogin # Undefined
                     THEN Value(newSettings.openAtLogin)
                     ELSE schema.openAtLogin,
     lastSent |-> t]

\* ipcMain.handle('save-settings'): the store it leaves.
saveSettingsStore(st, newSettings, t) ==
    LET s1 == IF newSettings.intervalMinutes # Undefined
              THEN [st EXCEPT !.intervalMinutes = Value(newSettings.intervalMinutes)]
              ELSE st
        s2 == IF newSettings.openAtLogin # Undefined
              THEN [s1 EXCEPT !.openAtLogin = Value(newSettings.openAtLogin)]
              ELSE s1
    IN  [s2 EXCEPT !.lastSent = t]

saveSettings(st, newSettings, t) ==
    Outcome(saveSettingsStore(st, newSettings, t), <<"saved">>)

\* Faulty variant: the test notification goes through the due-check.
testNotificationIfDue(st, t) == checkAndNotify(st, t)

\* ipcMain.handle('test-notification')
testNotification(st, t) == showWaterNotification(st, t)

\* ipcMain.handle('get-settings')
getSettings(st) == st

----------------------------------------------------------------------------
(* Actions *)

Max(a, b) == IF a >= b THEN a ELSE b

\* An instant d as seen at time t: itself while still to come, -1 once reached.
StillToCome(d, t) == IF d > t THEN d ELSE -1

\* Whether the record st is due at time t by the reminder's own arithmetic.
Due(st, t) == st.lastSent # 0 /\ t - st.lastSent >= st.intervalMinutes * 60000

\* The payload that provides nothing.
NoRequest == [intervalMinutes |-> Undefined, openAtLogin |-> Undefined]

Observe(op, out) ==
    /\ lastOp' = op
    /\ shown' = out.shown
    /\ pre' = store
    /\ store' = out.store

\* The wall clock moves on between two handlers.
Advance ==
    /\ \E t \in ClockTimes : t > now /\ now' = t
    /\ lastOp' = "clock"
    /\ shown' = <<>>
    /\ pre' = store
    /\ request' = NoRequest
    /\ owed' = StillToCome(owed, now')
    /\ UNCHANGED <<store, scheduler, loginItem, win, form, picked, started, lastSave>>

\* app.whenReady().then(...): setupIpcHandlers, createTray, initScheduler,
\* configureAutoLaunch.
WhenReady ==
    /\ scheduler = "null"
    /\ scheduler' = "running"
    /\ Observe("ready", Outcome(initScheduler(store, now), <<>>))
    /\ loginItem' = store.openAtLogin
    /\ started' = [at |-> now, overdue |-> Due(store, now), quit |-> FALSE]
    /\ request' = NoRequest
    /\ UNCHANGED <<now, win, form, picked, lastSave, owed>>

\* The Cron callback, once a minute while the scheduler runs.
Tick ==
    /\ scheduler = "running"
    /\ Observe("tick", checkAndNotify(store, now))
    /\ request' = NoRequest
    /\ UNCHANGED <<now, scheduler, loginItem, win, form, picked, started, lastSave, owed>>

\* A save-settings request with payload newSettings.
SaveSettingsRequest(newSettings) ==
    /\ scheduler # "null"
    /\ Observe("save", saveSettings(store, newSettings, now))
    /\ loginItem' = IF newSettings.openAtLogin # Undefined
                    THEN Value(newSettings.openAtLogin) ELSE loginItem
    /\ lastSave' = [at |-> now, intervalMinutes |-> store'.intervalMinutes]
    /\ owed' = StillToCome(Max(owed, now + store'.intervalMinutes * 60000), now)
    /\ request' = newSettings
    /\ UNCHANGED <<now, scheduler, win, form, picked, started>>

IpcPayloads ==
    [intervalMinutes : {Undefined} \cup { {m} : m \in IpcIntervals },
     openAtLogin : {Undefined} \cup { {b} : b \in BOOLEAN }]

SaveSettings == \E p \in IpcPayloads : SaveSettingsRequest(p)

TestNotification ==
    /\ scheduler # "null"
    /\ Observe("test", testNotification(store, now))
    /\ request' = NoRequest
    /\ UNCHANGED <<now, scheduler, loginItem, win, form, picked, started, lastSave, owed>>

\* The handler ran "quit", ran right after another run of it "quit again",
\* or threw "quit threw".
QuitOp(threw) ==
    IF threw THEN "quit threw"
    ELSE IF lastOp \in {"quit", "quit again"} THEN "quit again"
    ELSE "quit"

\* app.on('before-quit')
BeforeQuit ==
    LET r == beforeQuit(scheduler)
    IN  /\ scheduler' = r.scheduler
        /\ Observe(QuitOp(r.threw), Outcome(store, <<>>))
        /\ started' = [started EXCEPT !.quit = @ \/ started.at >= 0]
        /\ request' = NoRequest
        /\ UNCHANGED <<now, loginItem, win, form, picked, lastSave, owed>>

----------------------------------------------------------------------------
(* Renderer: the settings form *)

\* Faulty variant: the select offers an "off" option of value 0.
optionsWithOff == <<
    [value |-> <<0>>,       label |-> 0],
    [value |-> <<5>>,       label |-> 5],
    [value |-> <<1, 0>>,    label |-> 10],
    [value |-> <<3, 0>>,    label |-> 30] >>

\* The <option> elements of the interval <select>: the value attribute, as
\* its decimal digits, and the number of minutes the label announces.
options == <<
    [value |-> <<5>>,       label |-> 5],
    [value |-> <<1, 0>>,    label |-> 10],
    [value |-> <<1, 0>>,    label |-> 15],
    [value |-> <<3, 0>>,    label |-> 30],
    [value |-> <<6, 0>>,    label |-> 60],
    [value |-> <<1, 2, 0>>, label |-> 120],
    [value |-> <<2, 4, 0>>, label |-> 240] >>

\* Number(e.target.value) on a string of decimal digits.
RECURSIVE Number(_)
Number(digits) ==
    IF digits = <<>> THEN 0
    ELSE 10 * Number(SubSeq(digits, 1, Len(digits) - 1)) + digits[Len(digits)]

\* useState<number>(60), useState<boolean>(true)
useState == [intervalMinutes |-> 60, openAtLogin |-> TRUE]

\* loadSettings: the form state after getSettings() resolved with `settings`.
loadSettings(settings) ==
    [intervalMinutes |-> settings.intervalMinutes,
     openAtLogin |-> settings.openAtLogin]

\* The <select>'s onChange for the option at index i.
setIntervalMinutes(f, i) ==
    [f EXCEPT !.intervalMinutes = Number(options[i].value)]

\* handleSave's payload; the handler reads intervalMinutes and openAtLogin of it.
handleSavePayload(f) ==
    [intervalMinutes |-> {f.intervalMinutes}, openAtLogin |-> {f.openAtLogin}]

Unobserved == UNCHANGED <<lastOp, shown, pre, request>>

\* createSettingsWindow, from the tray: a new window mounts App.
CreateSettingsWindow ==
    /\ scheduler # "null"
    /\ win = "closed"
    /\ win' = "loading"
    /\ form' = useState
    /\ picked' = 0
    /\ Unobserved
    /\ UNCHANGED <<now, store, scheduler, loginItem, started, lastSave, owed>>

\* The mount effect: getSettings() resolves and fills the form.
LoadSettings ==
    /\ win = "loading"
    /\ win' = "open"
    /\ form' = loadSettings(getSettings(store))
    /\ picked' = 0
    /\ Unobserved
    /\ UNCHANGED <<now, store, scheduler, loginItem, started, lastSave, owed>>

\* The mount effect's catch branch: the form keeps its initial state.
LoadSettingsFailed ==
    /\ win = "loading"
    /\ win' = "open"
    /\ Unobserved
    /\ UNCHANGED <<now, store, scheduler, loginItem, form, picked, started, lastSave, owed>>

SelectInterval ==
    /\ win = "open"
    /\ \E i \in DOMAIN options :
           /\ form' = setIntervalMinutes(form, i)
           /\ picked' = i
    /\ Unobserved
    /\ UNCHANGED <<now, store, scheduler, loginItem, win, started, lastSave, owed>>

\* The "Run on login" checkbox.
SetOpenAtLogin ==
    /\ win = "open"
    /\ form' = [form EXCEPT !.openAtLogin = ~form.openAtLogin]
    /\ UNCHANGED picked
    /\ Unobserved
    /\ UNCHANGED <<now, store, scheduler, loginItem, win, started, lastSave, owed>>

\* The "Save Settings" button.
HandleSave ==
    /\ win = "open"
    /\ SaveSettingsRequest(handleSavePayload(form))

\* The "Test Notification" button.
HandleTest ==
    /\ win = "open"
    /\ TestNotification

\* settingsWindow.on('closed')
WindowClosed ==
    /\ win # "closed"
    /\ win' = "closed"
    /\ Unobserved
    /\ UNCHANGED <<now, store, scheduler, loginItem, form, picked, started, lastSave, owed>>

----------------------------------------------------------------------------
(* Specification: the main process driven over IPC *)

Persisted(intervals) ==
    { s \in [intervalMinutes : intervals,
             lastSent : {0} \cup ClockTimes,
             openAtLogin : BOOLEAN] : s.lastSent <= now }

InitWith(intervals) ==
    /\ now \in ClockTimes
    /\ store \in Persisted(intervals)
    /\ scheduler = "null"
    /\ loginItem \in BOOLEAN
    /\ win = "closed"
    /\ form = useState
    /\ lastOp = "start"
    /\ shown = <<>>
    /\ pre = store
    /\ started = [at |-> -1, overdue |-> FALSE, quit |-> FALSE]
    /\ lastSave = [at |-> -1, intervalMinutes |-> 0]
    /\ request = NoRequest
    /\ picked = 0
    /\ owed = -1

Init == InitWith({schema.intervalMinutes} \cup IpcIntervals)

Next ==
    \/ Advance
    \/ WhenReady
    \/ Tick
    \/ SaveSettings
    \/ TestNotification
    \/ BeforeQuit

Spec == Init /\ [][Next]_vars

----------------------------------------------------------------------------
(* Properties of the scheduler, checked under Spec *)

\* The number of water-reminder notifications the last handler displayed.
Reminders == Cardinality({ i \in DOMAIN shown : shown[i] = "water" })

TickRan == lastOp = "tick"

\* C1: a tick that reads lastSent = T # 0 and intervalMinutes = M > 0 at time
\* now shows a water reminder if and only if now - T >= M * 60000.
C1_Threshold ==
    (TickRan /\ pre.lastSent # 0 /\ pre.intervalMinutes > 0)
        => (Reminders = 1 <=> now - pre.lastSent >= pre.intervalMinutes * 60000)

\* A tick at exactly T + M*60000 has shown the reminder.
C1_Witness ==
    /\ TickRan
    /\ pre.lastSent # 0
    /\ pre.intervalMinutes > 0
    /\ now = pre.lastSent + pre.intervalMinutes * 60000
    /\ Reminders = 1

\* A tick at T + M*60000 - 1 has shown nothing.
C1_WitnessJustBefore ==
    /\ TickRan
    /\ pre.lastSent # 0
    /\ pre.intervalMinutes > 0
    /\ now = pre.lastSent + pre.intervalMinutes * 60000 - 1
    /\ Reminders = 0

\* C2: a tick that reads lastSent = 0 shows no notification and leaves the
\* settings record as it found it, whatever intervalMinutes and the clock are.
C2_SentinelSuppresses ==
    (TickRan /\ pre.lastSent = 0) => (shown = <<>> /\ store = pre)

\* A tick has read the sentinel at a time when the elapsed time since 0
\* reaches the interval, and has shown nothing.
C2_Witness ==
    /\ TickRan
    /\ pre.lastSent = 0
    /\ now > 0
    /\ now - pre.lastSent >= pre.intervalMinutes * 60000
    /\ shown = <<>>
    /\ store = pre

\* C3: whenever a handler has displayed a water reminder, from a due tick or
\* from the test-notification request, lastSent is the time of the display.
C3_StampOnFire ==
    Reminders > 0 => (lastOp \in {"tick", "test"} /\ store.lastSent = now)

\* A due tick has displayed the reminder and moved lastSent up to now.
C3_Witness ==
    /\ TickRan
    /\ Reminders = 1
    /\ pre.lastSent < now
    /\ store.lastSent = now

\* C4, as claimed: the test-notification handler leaves lastSent as it found it.
C4_TestKeepsLastSent ==
    lastOp = "test" => store.lastSent = pre.lastSent

\* C4, amended: the test-notification handler displays one water reminder
\* whether or not the interval has elapsed, and sets lastSent to the current
\* time; it changes nothing else of the record.
C4_TestStampsLastSent ==
    lastOp = "test" =>
        /\ shown = <<"water">>
        /\ store = [pre EXCEPT !.lastSent = now]

\* A test notification shown before the interval elapsed has moved lastSent,
\* and with it the next scheduled reminder.
C4_Witness ==
    /\ lastOp = "test"
    /\ pre.lastSent # 0
    /\ pre.intervalMinutes > 0
    /\ now - pre.lastSent < pre.intervalMinutes * 60000
    /\ pre.lastSent < now
    /\ shown = <<"water">>
    /\ store.lastSent = now

\* C5: every save-settings request ends with lastSent equal to the current
\* time, whatever it carries and whatever lastSent was.
C5_SaveResetsWindow ==
    lastOp = "save" => store.lastSent = now

\* A save that changed neither intervalMinutes nor openAtLogin, one
\* millisecond before the reminder was due, has reset lastSent.
C5_Witness ==
    /\ lastOp = "save"
    /\ pre.lastSent # 0
    /\ pre.intervalMinutes > 0
    /\ now = pre.lastSent + pre.intervalMinutes * 60000 - 1
    /\ store = [pre EXCEPT !.lastSent = now]

TickReminded == TickRan /\ Reminders > 0

\* C6, as claimed: a tick shows no reminder earlier than t + M*60000 for any
\* save-settings request completed at t that left the interval at M, whatever
\* ticks, test notifications and further saves followed it.  Stated for the
\* reminders shown under a positive interval.
C6_NoReminderBeforeAnySaveWindow ==
    (TickReminded /\ pre.intervalMinutes > 0) => owed = -1

\* C6, amended: a tick shows no reminder earlier than t + M*60000, where t is
\* the time of the latest save-settings request and M the interval it left.
C6_NoReminderBeforeLatestSaveWindow ==
    (TickReminded /\ lastSave.at >= 0)
        => /\ store.intervalMinutes = lastSave.intervalMinutes
           /\ now >= lastSave.at + lastSave.intervalMinutes * 60000

\* A tick has shown the reminder exactly M minutes after the latest save,
\* the record not having been stamped in between.
C6_Witness ==
    /\ TickReminded
    /\ lastSave.at >= 0
    /\ lastSave.intervalMinutes > 0
    /\ pre.lastSent = lastSave.at
    /\ now = lastSave.at + lastSave.intervalMinutes * 60000

\* C7: initScheduler sets lastSent to the current time whatever lastSent the
\* previous session left, and every tick reads a lastSent written at or after
\* initScheduler, never the one the process found.
C7_InitResetsWindow ==
    /\ lastOp = "ready" => store.lastSent = now
    /\ scheduler # "null" => (started.at >= 0 /\ store.lastSent >= started.at)
    /\ TickRan => (started.at >= 0 /\ pre.lastSent >= started.at)

\* initScheduler has found a lastSent that was already due, and has replaced it.
C7_Witness ==
    /\ lastOp = "ready"
    /\ pre.lastSent # 0
    /\ pre.intervalMinutes > 0
    /\ now - pre.lastSent >= pre.intervalMinutes * 60000
    /\ started.overdue
    /\ store.lastSent = now
    /\ store.lastSent # pre.lastSent

C9_NonPositiveIntervalRejected ==
    /\ (lastOp = "save" /\ pre.intervalMinutes > 0 /\ store.intervalMinutes <= 0)
           => store.intervalMinutes = pre.intervalMinutes
    /\ (TickRan /\ lastSave.at >= 0 /\ lastSave.intervalMinutes <= 0)
           => pre.intervalMinutes # lastSave.intervalMinutes

\* C11: with a wall clock that never goes backwards, no step of initialize,
\* tick, save-settings or test-notification lowers lastSent, and once
\* initScheduler has run lastSent <= now.
C11_LastSentMonotone ==
    /\ [][store'.lastSent >= store.lastSent]_vars
    /\ [](scheduler # "null" => store.lastSent <= now)

\* A test notification has raised a lastSent that had already been raised
\* since initScheduler.
C11_Witness ==
    /\ lastOp = "test"
    /\ started.at >= 0
    /\ started.at < pre.lastSent
    /\ pre.lastSent < store.lastSent
    /\ store.lastSent = now

QuitRan == lastOp \in {"quit", "quit again"}

\* C12: the before-quit cleanup never throws, whether initScheduler has run
\* or not and however often it runs; it displays nothing and leaves the
\* settings record as it found it, and a repeated run changes nothing at all
\* of the scheduler.
C12_IdempotentShutdown ==
    /\ [](lastOp # "quit threw")
    /\ [](QuitRan => (store = pre /\ shown = <<>>))
    /\ [][(QuitRan /\ lastOp' = "quit again")
              => (scheduler' = scheduler /\ store' = store)]_vars

\* The cleanup has run twice in a row before initScheduler ever ran.
C12_Witness ==
    /\ lastOp = "quit again"
    /\ scheduler = "null"
    /\ started.at = -1
    /\ store = pre

\* C13: once before-quit has run after initScheduler, the scheduler stays
\* stopped and no tick handler runs, so no tick shows a reminder or changes
\* lastSent afterwards.
C13_ShutdownStopsTicks ==
    started.quit => (scheduler = "stopped" /\ ~TickRan)

\* After the shutdown the clock has passed the instant at which a reminder
\* was due, and no tick has taken it.
C13_Witness ==
    /\ started.quit
    /\ lastOp = "clock"
    /\ store.intervalMinutes > 0
    /\ Due(store, now)

\* C14: handlers run one at a time and the tick decides on one read of the
\* record: whenever a tick runs after a save-settings request, the record it
\* reads holds that request's intervalMinutes together with a lastSent no
\* older than that request's reset, never the new interval with the old
\* lastSent.
C14_TickSeesWholeSave ==
    (TickRan /\ lastSave.at >= 0)
        => /\ pre.intervalMinutes = lastSave.intervalMinutes
           /\ pre.lastSent >= lastSave.at

\* A tick runs at the very clock reading of a save that changed the interval,
\* later than initScheduler's reading, and finds the window just restarted.
C14_Witness ==
    /\ TickRan
    /\ lastSave.at = now
    /\ started.at >= 0
    /\ started.at < now
    /\ pre.intervalMinutes > 0
    /\ pre.intervalMinutes # schema.intervalMinutes
    /\ pre.lastSent = now
    /\ Reminders = 0

\* C15: a tick that is not due (lastSent # 0 and now - lastSent <
\* intervalMinutes * 60000) shows nothing and leaves lastSent unchanged, and
\* no tick, due or not, changes intervalMinutes or openAtLogin.
C15_NotDueTickChangesNothing ==
    TickRan
        => /\ store.intervalMinutes = pre.intervalMinutes
           /\ store.openAtLogin = pre.openAtLogin
           /\ (pre.lastSent # 0
                   /\ now - pre.lastSent < pre.intervalMinutes * 60000)
                  => (shown = <<>> /\ store.lastSent = pre.lastSent)

\* A tick runs strictly inside the window, some time after lastSent.
C15_Witness ==
    /\ TickRan
    /\ pre.lastSent # 0
    /\ now > pre.lastSent
    /\ now - pre.lastSent < pre.intervalMinutes * 60000
    /\ store = pre

\* C16: a due tick shows exactly one notification however many whole
\* intervals have gone by since lastSent and sets lastSent to the time of the
\* tick; the tick that follows it shows nothing unless a further
\* intervalMinutes * 60000 ms have gone by since that notification.
C16_NoCatchUp ==
    /\ []((TickRan /\ Due(pre, now))
              => (shown = <<"water">> /\ store.lastSent = now))
    /\ [][(TickReminded /\ lastOp' = "tick")
              => \/ shown' = <<>>
                 \/ now' - store.lastSent >= store.intervalMinutes * 60000]_vars

\* A tick fires once after a gap of two whole intervals or more.
C16_Witness ==
    /\ TickReminded
    /\ pre.intervalMinutes > 0
    /\ now - pre.lastSent >= 2 * pre.intervalMinutes * 60000
    /\ shown = <<"water">>
    /\ store.lastSent = now

\* What a field reads after a request: the value the request provides, or
\* else the value the field had.
Updated(provided, previous) ==
    IF provided # Undefined THEN Value(provided) ELSE previous

\* C19: after save-settings(p), get-settings returns p's intervalMinutes when
\* p provides one and the previous intervalMinutes otherwise, and likewise
\* for openAtLogin: a field p leaves out is unchanged by the save.
C19_SaveThenGetRoundTrips ==
    lastOp = "save"
        => LET got == getSettings(store)
           IN  /\ got.intervalMinutes =
                      Updated(request.intervalMinutes, pre.intervalMinutes)
               /\ got.openAtLogin =
                      Updated(request.openAtLogin, pre.openAtLogin)

\* A request that provides only openAtLogin, and flips it, on a store whose
\* interval is not the default.
C19_Witness ==
    /\ lastOp = "save"
    /\ request.intervalMinutes = Undefined
    /\ request.openAtLogin = {~pre.openAtLogin}
    /\ pre.intervalMinutes # schema.intervalMinutes
    /\ getSettings(store).intervalMinutes = pre.intervalMinutes
    /\ getSettings(store).openAtLogin = ~pre.openAtLogin

----------------------------------------------------------------------------
(* Specification: the scheduler left to itself.  No save-settings request,   *)
(* no test notification and no shutdown occurs; the Cron job keeps firing    *)
(* every minute and the wall clock keeps advancing for as long as the        *)
(* modelled clock has readings left.                                         *)

NextLive ==
    \/ Advance
    \/ WhenReady
    \/ Tick

LiveSpec ==
    /\ Init
    /\ [][NextLive]_vars
    /\ WF_vars(Advance)
    /\ WF_vars(Tick)

\* The last reading of the modelled clock.
Horizon == MaxMinutes * 60 * 1000

\* The scheduler runs on lastSent = T and the window that started at T ends
\* within the modelled clock.
Waiting(T) ==
    /\ scheduler = "running"
    /\ store.lastSent = T
    /\ T + store.intervalMinutes * 60000 <= Horizon

\* C17 as stated: once initScheduler has run with a positive interval in
\* store, whatever lastSent the scheduler runs on, a tick eventually shows the
\* reminder that closes the window started at that lastSent; this covers the
\* first reminder after initialize and the next one after every reminder.
C17_RemindersEventuallyFire ==
    \A T \in ClockTimes :
        (Waiting(T) /\ store.intervalMinutes > 0)
            ~> (TickReminded /\ pre.lastSent = T)

\* C17, amended: the same for every lastSent other than 0, that is when the
\* clock read a positive time at initScheduler, and for every stored interval.
C17_RemindersFireOnPositiveStamp ==
    \A T \in ClockTimes \ {0} :
        Waiting(T) ~> (TickReminded /\ pre.lastSent = T)

\* A second reminder: the tick closes a window that an earlier reminder, not
\* initScheduler, had started.
C17_Witness ==
    /\ TickReminded
    /\ started.at > 0
    /\ pre.intervalMinutes > 0
    /\ pre.lastSent > started.at
    /\ store.lastSent = now

----------------------------------------------------------------------------
(* Specification: the process starts at a positive reading of the clock, as  *)
(* Date.now() gives on any machine whose clock is past the epoch.            *)

InitPositive == Init /\ now > 0

PositiveClockSpec == InitPositive /\ [][Next]_vars

\* C18: with a clock that reads a positive time, lastSent # 0 in every state
\* from initScheduler on: no handler writes 0 to lastSent, and no tick ever
\* takes the lastSent === 0 branch.
C18_SentinelGoneAfterInit ==
    /\ scheduler # "null" => store.lastSent # 0
    /\ TickRan => pre.lastSent # 0

\* initScheduler found the sentinel in the store and replaced it.
C18_Witness ==
    /\ lastOp = "ready"
    /\ pre.lastSent = 0
    /\ store.lastSent = now
    /\ now > 0

----------------------------------------------------------------------------
(* Specification: settings are saved from the settings form only.  The form   *)
(* and the handlers it calls are observed at one reading of the clock: no     *)
(* value the form handles depends on the clock.                               *)

\* The select's option values.
OptionValues == { Number(options[i].value) : i \in DOMAIN options }

\* What a store written only through the form can hold as intervalMinutes.
FormIntervals ==
    {schema.intervalMinutes, useState.intervalMinutes} \cup OptionValues

InitForm == InitWith(FormIntervals)

NextForm ==
    \/ WhenReady
    \/ Tick
    \/ CreateSettingsWindow
    \/ LoadSettings
    \/ LoadSettingsFailed
    \/ SelectInterval
    \/ SetOpenAtLogin
    \/ HandleSave
    \/ HandleTest
    \/ WindowClosed
    \/ BeforeQuit

FormSpec == InitForm /\ [][NextForm]_vars

----------------------------------------------------------------------------
(* Properties of the settings form, checked under FormSpec *)

\* C10: when the store was only ever written through the settings form,
\* intervalMinutes > 0 in every reachable state: it is the schema's default,
\* the form's initial value or the value of one of the select's options.
C10_IntervalPositive ==
    /\ store.intervalMinutes > 0
    /\ store.intervalMinutes \in FormIntervals

\* The form has saved an interval chosen in the select over another one.
C10_Witness ==
    /\ lastOp = "save"
    /\ win = "open"
    /\ store.intervalMinutes = form.intervalMinutes
    /\ store.intervalMinutes # pre.intervalMinutes
    /\ store.intervalMinutes \in OptionValues

\* C20: every interval the form offers is saved as labelled: choosing the
\* option labelled N minutes and pressing Save leaves intervalMinutes = N in
\* the store.
C20_OptionsSavedAsLabelled ==
    [][(HandleSave /\ picked # 0)
           => store'.intervalMinutes = options[picked].label]_vars

====
